---------------------------- MODULE Spec2Model ----------------------------
(***************************************************************************)
(* Shape-level model of the attention neck of vllab-under/attention:       *)
(*   mmdet/models/necks/attention.py            (class Attention)          *)
(*   mmdet/models/necks/attention_module/attention_augmented.py            *)
(*                              (AugmentedConv, AugmentedAttention)        *)
(*                                                                         *)
(* A feature map is a record [c |-> channels, s |-> spatial size]; the     *)
(* maps are square as in the class docstring's example, and every          *)
(* operation of the code treats height and width alike.  The flags that    *)
(* change values but no shape, index or control flow (residual,            *)
(* relu_before_extra_convs, no_norm_on_lateral, viz) are left out.  The    *)
(* attention gate modelled is the 'augmented' one, the only variant whose  *)
(* code is part of the sources.                                            *)
(*                                                                         *)
(* Python values are written as strings where TLA+ needs one sort:         *)
(* add_extra_convs is "False", "True", a policy string, or "None" (a       *)
(* value that is neither bool nor str).                                    *)
(***************************************************************************)
EXTENDS Integers, Sequences, FiniteSets, TLC

VARIABLES
    pc,        \* position of the Attention object / of its forward call
    args,      \* the constructor's arguments (a record)
    self,      \* the constructed Attention object (a record), or NoObj
    inputs,    \* forward's argument: a sequence of feature maps
    laterals,  \* forward's local list `laterals`
    temps,     \* forward's local list `temps`
    l,         \* forward's repetition counter (0-based, as in the code)
    i,         \* forward's level counter inside one repetition (0-based)
    outs,      \* forward's local list `outs`
    err,       \* the exception that ended construction or forward, or "none"
    calls,     \* F.interpolate calls made so far: [site, size, scale_factor]
    gates,     \* attention gate calls made so far: [l, i, n, levels, c, in_channels]
    refined,   \* calls of the repeated_convs made so far: [after, bank, role]
    conv,      \* AugmentedConv scenario: [phase, Nh, dk, dv, stride, ...]
    rel,       \* rel_to_abs scenario: [phase, B, Nh, L, x, out]
    heads      \* split/combine heads scenario: [phase, shape, Nh, x, split, back]

vars == <<pc, args, self, inputs, laterals, temps, l, i, outs, err, calls,
          gates, refined, conv, rel, heads>>

fwdVars == <<pc, args, self, inputs, laterals, temps, l, i, outs, err, calls,
             gates, refined>>

----------------------------------------------------------------------------
(* Bounds of the model *)

MaxIns == 3      \* most backbone levels (len(in_channels))
MaxOuts == 4     \* largest num_outs
MaxSize == 4     \* largest spatial size of an input level
MaxRep == 2      \* largest repeated_layer

----------------------------------------------------------------------------
(* Python helpers *)

\* range(a, b) as a sequence
Range(a, b) == [k \in 1..(IF b > a THEN b - a ELSE 0) |-> a + k - 1]

\* seq[k] with Python's 0-based index and negative wrap-around
PyIndexOK(seq, k) == k >= -Len(seq) /\ k < Len(seq)
PyIndex(seq, k) == IF k < 0 THEN seq[Len(seq) + k + 1] ELSE seq[k + 1]

\* a % b with Python's sign rule (the result has the sign of b), b # 0
PyMod(a, b) == IF b > 0 THEN a % b ELSE -((-a) % (-b))

RECURSIVE SumSeq(_)
SumSeq(s) == IF s = <<>> THEN 0 ELSE Head(s) + SumSeq(Tail(s))

----------------------------------------------------------------------------
(* Attention.__init__ *)

NoObj == [num_ins |-> -1]

\* lines 122-129: the level window; [ok, backbone_end_level]
WindowCheck(a) ==
    LET num_ins == Len(a.in_channels) IN
    IF a.end_level = -1
    THEN [ok |-> a.num_outs >= num_ins - a.start_level,
          backbone_end_level |-> num_ins]
    ELSE [ok |-> a.end_level <= num_ins
                 /\ a.num_outs = a.end_level - a.start_level,
          backbone_end_level |-> a.end_level]

\* mutant of PolicyStringOK: the membership assertion of line 223 left out
PolicyStringOK_unchecked(s) == TRUE

\* lines 219-233: the extra-level source policy; [ok, add_extra_convs]
PolicyStringOK(s) == s \in {"on_input", "on_lateral", "on_output"}

IsBool(v) == v \in {"False", "True"}
IsStr(v) == v \notin {"False", "True", "None"}

ExtraConvsPolicy(a) ==
    IF ~(IsStr(a.add_extra_convs) \/ IsBool(a.add_extra_convs))
    THEN [ok |-> FALSE, add_extra_convs |-> a.add_extra_convs]
    ELSE IF IsStr(a.add_extra_convs)
    THEN [ok |-> PolicyStringOK(a.add_extra_convs),
          add_extra_convs |-> a.add_extra_convs]
    ELSE IF a.add_extra_convs = "True"
    THEN [ok |-> TRUE,
          add_extra_convs |-> IF a.extra_convs_on_inputs THEN "on_input"
                                                         ELSE "on_output"]
    ELSE [ok |-> TRUE, add_extra_convs |-> "False"]

\* Python truth value of self.add_extra_convs
Truthy(p) == p \notin {"False", ""}

\* lines 137-145: how many banks each ModuleList of banks gets
BankCount(shared, R) == IF shared THEN (IF R >= 1 THEN 1 ELSE 0) ELSE R

\* lines 193-204: repeated_convs[b] gets one conv per window level when the
\* repetition r that created the bank is not the last one
RepeatedBank(a, W, r) ==
    IF r # a.repeated_layer - 1 /\ (~a.out_sharing \/ r = 0) THEN W ELSE 0

RepeatedConvs(a, W) ==
    [b \in 1..BankCount(a.out_sharing, a.repeated_layer) |-> RepeatedBank(a, W, b - 1)]

\* lines 238-261: fpn_convs gets, per window level, a conv or (with
\* out_sharing) an empty ModuleList; lines 264-282 append the extra convs
ExtraLevelCount(a, end) == a.num_outs - end + a.start_level

FpnConvs(a, W, end, policy) ==
    LET window == [k \in 1..W |-> IF a.out_sharing
                                  THEN [kind |-> "empty", cin |-> 0]
                                  ELSE [kind |-> "conv", cin |-> a.out_channels]]
        n == ExtraLevelCount(a, end)
        extra == IF Truthy(policy) /\ n >= 1
                 THEN [k \in 1..n |->
                        [kind |-> "extra",
                         cin |-> IF k = 1 /\ policy = "on_input"
                                 THEN PyIndex(a.in_channels, end - 1)
                                 ELSE a.out_channels]]
                 ELSE <<>>
    IN window \o extra

\* the whole constructor: [ok, err, obj]
AttentionInit(a) ==
    LET num_ins == Len(a.in_channels)
        w == WindowCheck(a)
        end == w.backbone_end_level
        W == Len(Range(a.start_level, end))
        p == ExtraConvsPolicy(a)
        idxOK == \A k \in 1..W : PyIndexOK(a.in_channels, a.start_level + k - 1)
        extraIdxOK == (Truthy(p.add_extra_convs) /\ ExtraLevelCount(a, end) >= 1
                       /\ p.add_extra_convs = "on_input")
                          => PyIndexOK(a.in_channels, end - 1)
    IN  IF ~w.ok THEN [ok |-> FALSE, err |-> "AssertionError:window", obj |-> NoObj]
        ELSE IF ~p.ok THEN [ok |-> FALSE, err |-> "AssertionError:policy", obj |-> NoObj]
        ELSE IF ~(idxOK /\ extraIdxOK)
        THEN [ok |-> FALSE, err |-> "IndexError", obj |-> NoObj]
        ELSE [ok |-> TRUE, err |-> "none", obj |->
              [num_ins |-> num_ins,
               in_channels |-> a.in_channels,
               out_channels |-> a.out_channels,
               num_outs |-> a.num_outs,
               start_level |-> a.start_level,
               end_level |-> a.end_level,
               backbone_end_level |-> end,
               add_extra_convs |-> p.add_extra_convs,
               repeated_layer |-> a.repeated_layer,
               down_sharing |-> a.down_sharing,
               attention_sharing |-> a.attention_sharing,
               out_sharing |-> a.out_sharing,
               add_fpn |-> a.add_fpn,
               scale_factor |-> a.scale_factor,
               \* downsample_convs[b] holds W lists of W chains each
               downsample_convs |->
                   [b \in 1..BankCount(a.down_sharing, a.repeated_layer) |-> W],
               \* fusion_attentions[b] holds W gates
               fusion_attentions |->
                   [b \in 1..BankCount(a.attention_sharing, a.repeated_layer) |-> W],
               gate_levels |-> num_ins - a.start_level,
               gate_in_channels |-> a.out_channels * (num_ins - a.start_level),
               repeated_convs |-> RepeatedConvs(a, W),
               lateral_convs |->
                   [k \in 1..W |-> PyIndex(a.in_channels, a.start_level + k - 1)],
               fpn_convs |-> FpnConvs(a, W, end, p.add_extra_convs)]]

----------------------------------------------------------------------------
(* Tensor operations, on shapes *)

Tensor(c, s) == [c |-> c, s |-> s]

\* output size of a convolution or pooling window: kernel k, stride, padding
ConvOut(s, k, stride, pad) == ((s + 2 * pad - k) \div stride) + 1

\* ConvModule(out_channels, out_channels, 3, stride=2, padding=1), line 208
DownConvSize(s) == ConvOut(s, 3, 2, 1)

\* nn.Sequential of n stride-2 convolutions (an empty one is the identity)
RECURSIVE Chain(_, _)
Chain(s, n) == IF n <= 0 THEN s ELSE Chain(DownConvSize(s), n - 1)

\* mutant of MaxPoolSize: a pooling window of 2 instead of 1
MaxPoolSize_kernel2(s) == ConvOut(s, 2, 2, 0)

\* F.max_pool2d(x, 1, stride=2), line 391
MaxPoolSize(s) == ConvOut(s, 1, 2, 0)

\* F.interpolate accepts exactly one of size and scale_factor
InterpolateOK(hasSize, hasScale) == (hasSize /\ ~hasScale) \/ (~hasSize /\ hasScale)

\* a += b in place: b must broadcast to a's shape
AddInPlaceOK(a, b) == a.c = b.c /\ (b.s = a.s \/ b.s = 1)

----------------------------------------------------------------------------
(* AugmentedAttention / AugmentedConv, on shapes *)

\* AugmentedConv defaults (attention_augmented.py line 7): dv=4, stride=4,
\* kernel_size=3, padding=(3-1)//2
AugmentedConvForward(x, conv_in, conv_out) ==
    \* conv_out and qkv_conv are built for conv_in channels (lines 25-27)
    IF x.c # conv_in THEN [ok |-> FALSE, err |-> "RuntimeError:channels", t |-> x]
    ELSE \* both paths come out ConvOut(s,3,4,1) wide, are concatenated along
         \* the channels and interpolated back to the input's size (line 68)
         [ok |-> ConvOut(x.s, 3, 4, 1) >= 1, err |-> "none",
          t |-> Tensor(conv_out, x.s)]

\* AugmentedAttention.forward (lines 150-162) for a gate built with
\* levels, in_channels, out_channels: [ok, err, t]
GateForward(samples, levels, in_channels, out_channels) ==
    IF samples = <<>> \/ \E k \in 1..Len(samples) : samples[k].s # samples[1].s
    THEN [ok |-> FALSE, err |-> "RuntimeError:cat", t |-> Tensor(0, 0)]
    ELSE LET x == Tensor(SumSeq([k \in 1..Len(samples) |-> samples[k].c]),
                         samples[1].s)
             m == AugmentedConvForward(x, in_channels, out_channels)
         IN  IF levels >= 1 /\ ~m.ok
             THEN [ok |-> FALSE, err |-> m.err, t |-> Tensor(0, 0)]
             ELSE IF levels > Len(samples)
             THEN [ok |-> FALSE, err |-> "IndexError:gate", t |-> Tensor(0, 0)]
             ELSE IF levels < 1
             THEN [ok |-> FALSE, err |-> "TypeError:sum", t |-> Tensor(0, 0)]
             ELSE IF \E k \in 1..levels : samples[k].c # m.t.c
             THEN [ok |-> FALSE, err |-> "RuntimeError:mul", t |-> Tensor(0, 0)]
             ELSE [ok |-> TRUE, err |-> "none", t |-> Tensor(m.t.c, samples[1].s)]

----------------------------------------------------------------------------
(* Attention.forward *)

\* the top-down pass of lines 309-321 and 355-367 over the list lats: the
\* F.interpolate calls it makes, in order, and whether each += succeeds
TopDownCalls(lats, scale, site) ==
    [k \in 1..(IF Len(lats) >= 1 THEN Len(lats) - 1 ELSE 0) |->
        LET hi == Len(lats) - k + 1         \* laterals[i], 1-based
            up == IF scale # 0 THEN Tensor(lats[hi].c, lats[hi].s * scale)
                               ELSE Tensor(lats[hi].c, lats[hi - 1].s)
        IN [call |-> [site |-> site, size |-> scale = 0, scale_factor |-> scale # 0],
            ok |-> AddInPlaceOK(lats[hi - 1], up)]]

\* the candidates of level ii (0-based) built at lines 339-343: [ok, err,
\* samples, calls]
InterpolateArgs(scale) == [size |-> TRUE, scale_factor |-> scale # 0]

Candidates(obj, lats, ll, ii) ==
    LET W == Len(lats)
        down_l == IF obj.down_sharing THEN 0 ELSE ll
        bankOK == down_l < Len(obj.downsample_convs)
                  /\ (ii >= 1 => ii < obj.downsample_convs[down_l + 1])
        chanOK == \A j \in 0..(ii - 1) :
                      (ii - j >= 1) => lats[j + 1].c = obj.out_channels
        down == [j \in 1..ii |-> Tensor(lats[j].c, Chain(lats[j].s, ii - (j - 1)))]
        ia == InterpolateArgs(obj.scale_factor)
        nUp == W - ii - 1
        up == [j \in 1..nUp |-> Tensor(lats[ii + 1 + j].c, lats[ii + 1].s)]
        upCalls == IF nUp >= 1
                   THEN {[site |-> "candidates", size |-> ia.size,
                          scale_factor |-> ia.scale_factor]}
                   ELSE {}
    IN  IF ii >= 1 /\ ~bankOK
        THEN [ok |-> FALSE, err |-> "IndexError:downsample_convs",
              samples |-> <<>>, calls |-> {}]
        ELSE IF ~chanOK
        THEN [ok |-> FALSE, err |-> "RuntimeError:channels",
              samples |-> <<>>, calls |-> {}]
        ELSE IF nUp >= 1 /\ ~InterpolateOK(ia.size, ia.scale_factor)
        THEN [ok |-> FALSE, err |-> "ValueError:interpolate",
              samples |-> <<>>, calls |-> upCalls]
        ELSE [ok |-> TRUE, err |-> "none",
              samples |-> down \o <<lats[ii + 1]>> \o up, calls |-> upCalls]

\* the input pyramids tried: the spatial sizes of n levels, finest first
NonIncreasing(n) ==
    {p \in [1..n -> 1..MaxSize] : \A k \in 1..(n - 1) : p[k] >= p[k + 1]}

\* the class docstring's example (attention.py lines 58-62)
DocChannels == <<2, 3, 5, 7>>
DocScales == <<340, 170, 84, 43>>
DocOutChannels == 11

Pyramids(n) == NonIncreasing(n) \cup (IF n = Len(DocScales) THEN {DocScales} ELSE {})

Fail(e) == /\ pc' = "failed"
           /\ err' = e

\* Attention(...): lines 72-282
Construct ==
    /\ pc = "new"
    /\ LET r == AttentionInit(args) IN
        /\ pc' = IF r.ok THEN "constructed" ELSE "ctor_failed"
        /\ err' = r.err
        /\ self' = r.obj
    /\ UNCHANGED <<args, inputs, laterals, temps, l, i, outs, calls, gates,
                   refined, conv, rel, heads>>

\* forward(inputs), lines 294-300: the length assertion and the laterals
BuildLaterals ==
    /\ pc = "constructed"
    /\ \E n \in 0..(self.num_ins + 1) : \E p \in Pyramids(n) :
        LET W == Len(self.lateral_convs)
            chan(k) == IF k <= Len(self.in_channels) THEN self.in_channels[k]
                       ELSE self.out_channels
            x == [k \in 1..n |-> Tensor(chan(k), p[k])]
            idxOK == \A k \in 0..(W - 1) : PyIndexOK(x, k + self.start_level)
            src(k) == PyIndex(x, k + self.start_level)
        IN  IF n # Len(self.in_channels)
            THEN Fail("AssertionError:len(inputs)")
                 /\ UNCHANGED <<inputs, laterals>>
            ELSE IF ~idxOK
            THEN Fail("IndexError:inputs") /\ inputs' = x /\ UNCHANGED laterals
            ELSE IF \E k \in 0..(W - 1) : src(k).c # self.lateral_convs[k + 1]
            THEN Fail("RuntimeError:channels") /\ inputs' = x /\ UNCHANGED laterals
            ELSE /\ pc' = "premerge"
                 /\ inputs' = x
                 /\ laterals' = [k \in 1..W |-> Tensor(self.out_channels, src(k - 1).s)]
                 /\ UNCHANGED err
    /\ UNCHANGED <<args, self, temps, l, i, outs, calls, gates, refined,
                   conv, rel, heads>>

\* the calls a top-down pass makes up to and including its first failing +=
TopDownPrefix(td) ==
    {td[k].call : k \in {k \in 1..Len(td) : \A m \in 1..(k - 1) : td[m].ok}}

\* lines 309-321: the optional top-down pass before the repetitions
PreMerge ==
    /\ pc = "premerge"
    /\ LET td == TopDownCalls(laterals, self.scale_factor, "pre-merge") IN
        IF "before" \in self.add_fpn
        THEN /\ calls' = calls \cup TopDownPrefix(td)
             /\ IF \A k \in 1..Len(td) : td[k].ok
                THEN pc' = "fuse" /\ UNCHANGED err
                ELSE Fail("RuntimeError:add")
        ELSE pc' = "fuse" /\ UNCHANGED <<err, calls>>
    /\ l' = 0 /\ i' = 0 /\ temps' = <<>>
    /\ UNCHANGED <<args, self, inputs, laterals, outs, gates, refined,
                   conv, rel, heads>>

\* lines 327-347: one level of one repetition
FuseLevel ==
    /\ pc = "fuse"
    /\ l < self.repeated_layer
    /\ i < Len(laterals)
    /\ LET cand == Candidates(self, laterals, l, i)
           attention_l == IF self.attention_sharing THEN 0 ELSE l
           gateOK == attention_l < Len(self.fusion_attentions)
                     /\ i < self.fusion_attentions[attention_l + 1]
           g == GateForward(cand.samples, self.gate_levels,
                            self.gate_in_channels, self.out_channels)
       IN  /\ calls' = calls \cup cand.calls
           /\ IF ~cand.ok
              THEN Fail(cand.err) /\ UNCHANGED <<temps, i, gates>>
              ELSE IF ~gateOK
              THEN Fail("IndexError:fusion_attentions") /\ UNCHANGED <<temps, i, gates>>
              ELSE /\ gates' = gates \cup
                          {[l |-> l, i |-> i, n |-> Len(cand.samples),
                            levels |-> self.gate_levels,
                            c |-> SumSeq([k \in 1..Len(cand.samples) |-> cand.samples[k].c]),
                            in_channels |-> self.gate_in_channels,
                            sizes |-> {cand.samples[k].s : k \in 1..Len(cand.samples)},
                            shape |-> laterals[i + 1].s,
                            samples |-> [k \in 1..Len(cand.samples) |-> cand.samples[k].s],
                            laterals |-> [k \in 1..Len(laterals) |-> laterals[k].s]]}
                   /\ IF g.ok
                      THEN /\ temps' = Append(temps, g.t)
                           /\ i' = i + 1
                           /\ UNCHANGED <<pc, err>>
                      ELSE Fail(g.err) /\ UNCHANGED <<temps, i>>
    /\ UNCHANGED <<args, self, inputs, laterals, l, outs, refined, conv, rel, heads>>

\* line 348: the refinement convolutions run after repetition ll unless it
\* is the last one
RefineAfter_always(obj, ll) == TRUE

RefineAfter(obj, ll) == ll # obj.repeated_layer - 1

\* lines 348-353: the end of one repetition
EndRepetition ==
    /\ pc = "fuse"
    /\ l < self.repeated_layer
    /\ i = Len(laterals)
    /\ LET out_l == IF self.out_sharing THEN 0 ELSE l
           W == Len(laterals)
           bankOK == W >= 1 => (out_l < Len(self.repeated_convs)
                                /\ W <= self.repeated_convs[out_l + 1])
       IN  IF RefineAfter(self, l)
           THEN IF bankOK
                THEN /\ laterals' = [k \in 1..W |-> Tensor(self.out_channels, temps[k].s)]
                     /\ refined' = refined \cup
                            (IF W >= 1
                             THEN {[after |-> l, bank |-> out_l, role |-> "refinement"]}
                             ELSE {})
                     /\ l' = l + 1 /\ i' = 0 /\ temps' = <<>>
                     /\ UNCHANGED <<pc, err>>
                ELSE Fail("IndexError:repeated_convs")
                     /\ UNCHANGED <<laterals, refined, l, i, temps>>
           ELSE /\ laterals' = temps
                /\ l' = l + 1 /\ i' = 0
                /\ UNCHANGED <<pc, err, refined, temps>>
    /\ UNCHANGED <<args, self, inputs, outs, calls, gates, conv, rel, heads>>

\* lines 355-367: the optional top-down pass after the repetitions
PostMerge ==
    /\ pc = "fuse"
    /\ l = self.repeated_layer
    /\ LET td == TopDownCalls(laterals, self.scale_factor, "post-merge") IN
        IF "after" \in self.add_fpn
        THEN /\ calls' = calls \cup TopDownPrefix(td)
             /\ IF \A k \in 1..Len(td) : td[k].ok
                THEN pc' = "outs" /\ UNCHANGED err
                ELSE Fail("RuntimeError:add")
        ELSE pc' = "outs" /\ UNCHANGED <<err, calls>>
    /\ UNCHANGED <<args, self, inputs, laterals, temps, l, i, outs, gates,
                   refined, conv, rel, heads>>

Out(kind, idx, t) == [kind |-> kind, idx |-> idx, c |-> t.c, s |-> t.s]

\* lines 377-384: the outputs of the window levels
BuildOuts ==
    /\ pc = "outs"
    /\ LET W == Len(laterals)
           sharedOK == W >= 1 => (Len(self.repeated_convs) >= 1
                                  /\ W <= self.repeated_convs[1])
           ownOK == \A k \in 1..W : k <= Len(self.fpn_convs)
                                     /\ self.fpn_convs[k].kind # "empty"
       IN  IF self.out_sharing /\ ~sharedOK
           THEN Fail("IndexError:repeated_convs") /\ UNCHANGED <<outs, refined>>
           ELSE IF ~self.out_sharing /\ ~ownOK
           THEN Fail("IndexError:fpn_convs") /\ UNCHANGED <<outs, refined>>
           ELSE /\ outs' = [k \in 1..W |->
                              Out("window", k - 1, Tensor(self.out_channels, laterals[k].s))]
                \* line 379: under out_sharing the projection is repeated_convs[0]
                /\ refined' = refined \cup
                       (IF self.out_sharing /\ W >= 1
                        THEN {[after |-> self.repeated_layer - 1, bank |-> 0,
                               role |-> "projection"]}
                        ELSE {})
                /\ pc' = "extra"
                /\ UNCHANGED err
    /\ UNCHANGED <<args, self, inputs, laterals, temps, l, i, calls, gates,
                   conv, rel, heads>>

\* line 391, repeated: n more levels pooled from the last output
RECURSIVE Pooled(_, _)
Pooled(os, n) ==
    IF n <= 0 THEN os
    ELSE Pooled(Append(os, Out("extra", Len(os),
                               Tensor(os[Len(os)].c, MaxPoolSize(os[Len(os)].s)))),
                n - 1)

\* lines 402-407: the extra convolutions fpn_convs[from..num_outs-1], the
\* first on src and each next on the previous output; [ok, err, outs]
RECURSIVE ExtraConvs(_, _, _, _, _)
ExtraConvs(obj, os, src, k, first) ==
    IF ~first /\ k >= obj.num_outs THEN [ok |-> TRUE, err |-> "none", outs |-> os]
    ELSE IF k >= Len(obj.fpn_convs)
    THEN [ok |-> FALSE, err |-> "IndexError:fpn_convs", outs |-> os]
    ELSE IF obj.fpn_convs[k + 1].kind = "empty"
    THEN [ok |-> FALSE, err |-> "NotImplementedError:ModuleList", outs |-> os]
    ELSE IF obj.fpn_convs[k + 1].cin # src.c
    THEN [ok |-> FALSE, err |-> "RuntimeError:channels", outs |-> os]
    ELSE LET t == Tensor(obj.out_channels,
                         IF obj.fpn_convs[k + 1].kind = "extra"
                         THEN DownConvSize(src.s) ELSE src.s)
         IN ExtraConvs(obj, Append(os, Out("extra", Len(os), t)), t, k + 1, FALSE)

\* the source of the first extra convolution, lines 394-401: [ok, err, t]
ExtraSource(obj, ins, lats, os) ==
    IF obj.add_extra_convs = "on_input"
    THEN IF PyIndexOK(ins, obj.backbone_end_level - 1)
         THEN [ok |-> TRUE, err |-> "none", t |-> PyIndex(ins, obj.backbone_end_level - 1)]
         ELSE [ok |-> FALSE, err |-> "IndexError:inputs", t |-> Tensor(0, 0)]
    ELSE IF obj.add_extra_convs = "on_lateral"
    THEN IF lats # <<>>
         THEN [ok |-> TRUE, err |-> "none", t |-> lats[Len(lats)]]
         ELSE [ok |-> FALSE, err |-> "IndexError:laterals", t |-> Tensor(0, 0)]
    ELSE IF obj.add_extra_convs = "on_output"
    THEN IF os # <<>>
         THEN [ok |-> TRUE, err |-> "none", t |-> Tensor(os[Len(os)].c, os[Len(os)].s)]
         ELSE [ok |-> FALSE, err |-> "IndexError:outs", t |-> Tensor(0, 0)]
    ELSE [ok |-> FALSE, err |-> "NotImplementedError", t |-> Tensor(0, 0)]

\* lines 385-408: the extra levels and the return
ExtraLevels ==
    /\ pc = "extra"
    /\ LET W == Len(laterals) IN
        IF self.num_outs > Len(outs)
        THEN IF ~Truthy(self.add_extra_convs)
             THEN IF outs = <<>>
                  THEN Fail("IndexError:outs") /\ UNCHANGED outs
                  ELSE /\ outs' = Pooled(outs, self.num_outs - W)
                       /\ pc' = "done"
                       /\ UNCHANGED err
             ELSE LET s == ExtraSource(self, inputs, laterals, outs)
                      e == ExtraConvs(self, outs, s.t, W, TRUE)
                  IN  IF ~s.ok THEN Fail(s.err) /\ UNCHANGED outs
                      ELSE IF ~e.ok THEN Fail(e.err) /\ UNCHANGED outs
                      ELSE /\ outs' = e.outs
                           /\ pc' = "done"
                           /\ UNCHANGED err
        ELSE pc' = "done" /\ UNCHANGED <<outs, err>>
    /\ UNCHANGED <<args, self, inputs, laterals, temps, l, i, calls, gates,
                   refined, conv, rel, heads>>

ForwardNext ==
    \/ Construct
    \/ BuildLaterals
    \/ PreMerge
    \/ FuseLevel
    \/ EndRepetition
    \/ PostMerge
    \/ BuildOuts
    \/ ExtraLevels

----------------------------------------------------------------------------
(* Specification of the orchestrator: every constructor call over the      *)
(* level geometry, the extra-convs policy and repeated_layer, then one     *)
(* forward call on every input pyramid within the bounds.                  *)

Bool == {TRUE, FALSE}

InChannels(n) == [k \in 1..n |-> k + 1]

Policies == {"False", "True", "on_input", "on_lateral", "on_output",
             "on_top", "", "None"}

DefaultArgs ==
    [in_channels |-> DocChannels, out_channels |-> DocOutChannels,
     num_outs |-> Len(DocChannels), start_level |-> 0, end_level |-> -1,
     add_extra_convs |-> "False", extra_convs_on_inputs |-> TRUE,
     repeated_layer |-> 1, down_sharing |-> FALSE,
     attention_sharing |-> FALSE, out_sharing |-> FALSE,
     add_fpn |-> {}, scale_factor |-> 0]

\* every level geometry, policy and repeated_layer, the other flags default
GeometryArgs ==
    {a \in
     {[DefaultArgs EXCEPT !.in_channels = InChannels(n), !.num_outs = no,
                         !.start_level = st, !.end_level = en,
                         !.add_extra_convs = po, !.extra_convs_on_inputs = oi,
                         !.repeated_layer = rl] :
        n \in 1..MaxIns, no \in 1..MaxOuts, st \in -1..(MaxIns + 1),
        en \in -1..(MaxIns + 1), po \in Policies, oi \in Bool, rl \in 1..MaxRep} :
     \* extra_convs_on_inputs is read only when add_extra_convs is True
     a.add_extra_convs # "True" => a.extra_convs_on_inputs}

\* every combination of the sharing flags and repeated_layer, over the
\* windows [start_level, num_ins) with 0 <= start_level < num_ins
BankArgs ==
    {a \in
     {[DefaultArgs EXCEPT !.in_channels = InChannels(n), !.num_outs = n - st,
                         !.start_level = st, !.repeated_layer = rl,
                         !.down_sharing = ds, !.attention_sharing = as,
                         !.out_sharing = os] :
        n \in 1..MaxIns, st \in 0..(MaxIns - 1), rl \in 1..MaxRep,
        ds \in Bool, as \in Bool, os \in Bool} :
     a.num_outs >= 1}

\* every upsample_cfg (with or without scale_factor=2) and add_fpn
ScaleFactors == {0, 2}

ResampleArgs ==
    {a \in
     {[DefaultArgs EXCEPT !.in_channels = InChannels(n), !.num_outs = n - st,
                         !.start_level = st, !.repeated_layer = rl,
                         !.add_fpn = af, !.scale_factor = sf] :
        n \in 1..MaxIns, st \in 0..(MaxIns - 1), rl \in 1..MaxRep,
        af \in SUBSET {"before", "after"}, sf \in ScaleFactors} :
     a.num_outs >= 1}

\* the docstring's example, the same with two pooled extra levels (spec
\* section 8), and its last level alone with two pooled extra levels
DocArgs ==
    {DefaultArgs,
     [DefaultArgs EXCEPT !.num_outs = Len(DocChannels) + 2],
     [DefaultArgs EXCEPT !.start_level = Len(DocChannels) - 1, !.num_outs = 3]}

IdleConv == [phase |-> "idle"]
IdleRel == [phase |-> "idle"]
IdleHeads == [phase |-> "idle"]

ForwardInit(A) ==
    /\ pc = "new"
    /\ args \in A
    /\ self = NoObj
    /\ inputs = <<>> /\ laterals = <<>> /\ temps = <<>> /\ outs = <<>>
    /\ l = 0 /\ i = 0
    /\ err = "none"
    /\ calls = {} /\ gates = {} /\ refined = {}
    /\ conv = IdleConv /\ rel = IdleRel /\ heads = IdleHeads

Init == ForwardInit(GeometryArgs \cup BankArgs \cup ResampleArgs \cup DocArgs)

Next == ForwardNext

Spec == Init /\ [][Next]_vars

----------------------------------------------------------------------------
(* AugmentedConv.__init__ (attention_augmented.py lines 7-33) *)

MaxHeads == 3    \* largest |Nh|
MaxDepth == 4    \* largest dk and dv
MaxStride == 5   \* largest stride tried

\* a // b with Python's floor rule, b # 0
PyFloorDiv(a, b) == IF b > 0 THEN a \div b ELSE (-a) \div (-b)

\* line 20
NhCheck(Nh) == Nh # 0

\* line 23
StrideCheck(stride) == stride \in {1, 2, 3, 4}

\* lines 20-33: the assertions in order, then the parameters; [ok, err]
AugmentedConvInit(a) ==
    IF ~NhCheck(a.Nh) THEN [ok |-> FALSE, err |-> "AssertionError:Nh"]
    ELSE IF PyMod(a.dk, a.Nh) # 0 THEN [ok |-> FALSE, err |-> "AssertionError:dk"]
    ELSE IF PyMod(a.dv, a.Nh) # 0 THEN [ok |-> FALSE, err |-> "AssertionError:dv"]
    ELSE IF ~StrideCheck(a.stride) THEN [ok |-> FALSE, err |-> "AssertionError:stride"]
    \* torch.randn((2 * shape - 1, dk // Nh)) refuses a negative dimension
    ELSE IF a.relative /\ (2 * a.shape - 1 < 0 \/ PyFloorDiv(a.dk, a.Nh) < 0)
    THEN [ok |-> FALSE, err |-> "RuntimeError:randn"]
    ELSE [ok |-> TRUE, err |-> "none"]

ConvArgs ==
    [Nh : (-MaxHeads)..MaxHeads, dk : 1..MaxDepth, dv : 1..MaxDepth,
     stride : 0..MaxStride, relative : Bool, shape : {8}]

ConvConstruct ==
    /\ conv.phase = "new"
    /\ LET r == AugmentedConvInit(conv.a) IN
        conv' = [phase |-> IF r.ok THEN "constructed" ELSE "failed",
                 a |-> conv.a, err |-> r.err]
    /\ UNCHANGED <<pc, args, self, inputs, laterals, temps, l, i, outs, err,
                   calls, gates, refined, rel, heads>>

IdleForward ==
    /\ pc = "idle" /\ args = DefaultArgs /\ self = NoObj
    /\ inputs = <<>> /\ laterals = <<>> /\ temps = <<>> /\ outs = <<>>
    /\ l = 0 /\ i = 0 /\ err = "none"
    /\ calls = {} /\ gates = {} /\ refined = {}

InitConv ==
    /\ IdleForward
    /\ conv \in [phase : {"new"}, a : ConvArgs, err : {"none"}]
    /\ rel = IdleRel /\ heads = IdleHeads

NextConv == ConvConstruct

SpecConv == InitConv /\ [][NextConv]_vars

----------------------------------------------------------------------------
(* Tensors with their elements: a shape and the elements in row-major      *)
(* order, which is what torch.reshape keeps.                               *)

MaxBatch == 2    \* largest batch size
MaxLen == 3      \* largest L of rel_to_abs
MaxChan == 4     \* largest channel count of split_heads_2d's input
MaxHW == 2       \* largest height and width of split_heads_2d's input
MaxBase == 2     \* largest offset of the sentinel values

RECURSIVE Prod(_)
Prod(shape) == IF shape = <<>> THEN 1 ELSE Head(shape) * Prod(Tail(shape))

\* row-major offset (0-based) of the 0-based index idx in a tensor of shape
RECURSIVE Offset(_, _)
Offset(shape, idx) ==
    IF shape = <<>> THEN 0
    ELSE Offset(SubSeq(shape, 1, Len(shape) - 1), SubSeq(idx, 1, Len(idx) - 1))
            * shape[Len(shape)] + idx[Len(idx)]

At(t, idx) == t.data[Offset(t.shape, idx) + 1]

\* torch.reshape(t, shape); the element counts must agree
ReshapeOK(t, shape) == Prod(shape) = Len(t.data)
Reshape(t, shape) == [shape |-> shape, data |-> t.data]

\* torch.cat((t, zeros), dim=last) with pad zeros per row
CatZerosLast(t, pad) ==
    LET w == t.shape[Len(t.shape)]
        rows == Prod(SubSeq(t.shape, 1, Len(t.shape) - 1))
    IN [shape |-> [t.shape EXCEPT ![Len(t.shape)] = w + pad],
        data |-> [n \in 1..(rows * (w + pad)) |->
                    LET r == (n - 1) \div (w + pad)
                        c == (n - 1) % (w + pad)
                    IN IF c < w THEN t.data[r * w + c + 1] ELSE 0]]

\* the input tensors tried: distinct non-zero values, so that every element
\* of a result tells which input element (or which pad zero) it is
Sentinel(shape, base, sign) ==
    [shape |-> shape, data |-> [n \in 1..Prod(shape) |-> sign * (base + n)]]

----------------------------------------------------------------------------
(* AugmentedConv.rel_to_abs (lines 122-134) *)

\* lines 125-126: one zero column appended to every row
ColPad(x) == CatZerosLast(x, 1)

\* lines 128-130: flattened per (batch, head), L - 1 zeros appended
FlatPad(x, B, Nh, L) == CatZerosLast(Reshape(x, <<B, Nh, L * 2 * L>>), L - 1)

\* mutant of SliceFirstCol: the slice starts one column late
SliceFirstCol_late(L) == L

\* line 133: final_x[:, :, :L, L - 1:]
SliceRows(L) == L
SliceFirstCol(L) == L - 1

RelSlice(t, B, Nh, L) ==
    LET rows == SliceRows(L)
        cols == t.shape[4] - SliceFirstCol(L)
    IN [shape |-> <<B, Nh, rows, cols>>,
        data |-> [n \in 1..(B * Nh * rows * cols) |->
                    LET k == (n - 1) % cols
                        p == ((n - 1) \div cols) % rows
                        h == ((n - 1) \div (cols * rows)) % Nh
                        b == (n - 1) \div (cols * rows * Nh)
                    IN At(t, <<b, h, p, SliceFirstCol(L) + k>>)]]

\* the whole function; [ok, t]
RelToAbs(x) ==
    LET B == x.shape[1]
        Nh == x.shape[2]
        L == x.shape[3]
        padded == FlatPad(ColPad(x), B, Nh, L)
    IN  IF ~ReshapeOK(ColPad(x), <<B, Nh, L * 2 * L>>)
           \/ ~ReshapeOK(padded, <<B, Nh, L + 1, 2 * L - 1>>)
        THEN [ok |-> FALSE, t |-> x]
        ELSE [ok |-> TRUE,
              t |-> RelSlice(Reshape(padded, <<B, Nh, L + 1, 2 * L - 1>>), B, Nh, L)]

RelCall ==
    /\ rel.phase = "call"
    /\ LET r == RelToAbs(rel.x) IN
        rel' = [phase |-> IF r.ok THEN "returned" ELSE "failed",
                x |-> rel.x, out |-> r.t]
    /\ UNCHANGED <<pc, args, self, inputs, laterals, temps, l, i, outs, err,
                   calls, gates, refined, conv, heads>>

InitRel ==
    /\ IdleForward
    /\ \E B \in 1..MaxBatch, Nh \in 1..MaxHeads, L \in 1..MaxLen,
          base \in 0..MaxBase, sign \in {1, -1} :
        LET x == Sentinel(<<B, Nh, L, 2 * L - 1>>, base, sign) IN
        rel = [phase |-> "call", x |-> x, out |-> x]
    /\ conv = IdleConv /\ heads = IdleHeads

NextRel == RelCall

SpecRel == InitRel /\ [][NextRel]_vars

----------------------------------------------------------------------------
(* AugmentedConv.split_heads_2d and combine_heads_2d (lines 86-95) *)

\* mutant of SplitShape: the head axis and the per-head channel axis swapped
SplitShape_swapped(shape, Nh) ==
    <<shape[1], shape[2] \div Nh, Nh, shape[3], shape[4]>>

\* line 88
SplitShape(shape, Nh) ==
    <<shape[1], Nh, shape[2] \div Nh, shape[3], shape[4]>>

\* line 94
CombineShape(shape) == <<shape[1], shape[2] * shape[3], shape[4], shape[5]>>

SplitHeads ==
    /\ heads.phase = "call"
    /\ LET sh == SplitShape(heads.x.shape, heads.Nh) IN
        IF ReshapeOK(heads.x, sh)
        THEN heads' = [heads EXCEPT !.phase = "split", !.split = Reshape(heads.x, sh)]
        ELSE heads' = [heads EXCEPT !.phase = "failed"]
    /\ UNCHANGED <<pc, args, self, inputs, laterals, temps, l, i, outs, err,
                   calls, gates, refined, conv, rel>>

CombineHeads ==
    /\ heads.phase = "split"
    /\ LET sh == CombineShape(heads.split.shape) IN
        IF ReshapeOK(heads.split, sh)
        THEN heads' = [heads EXCEPT !.phase = "combined",
                                    !.back = Reshape(heads.split, sh)]
        ELSE heads' = [heads EXCEPT !.phase = "failed"]
    /\ UNCHANGED <<pc, args, self, inputs, laterals, temps, l, i, outs, err,
                   calls, gates, refined, conv, rel>>

InitHeads ==
    /\ IdleForward
    /\ \E B \in 1..MaxBatch, C \in 1..MaxChan, H \in 1..MaxHW, W \in 1..MaxHW,
          Nh \in 1..MaxHeads, base \in 0..MaxBase :
        LET x == Sentinel(<<B, C, H, W>>, base, 1) IN
        heads = [phase |-> "call", Nh |-> Nh, x |-> x, split |-> x, back |-> x]
    /\ conv = IdleConv /\ rel = IdleRel

NextHeads == SplitHeads \/ CombineHeads

SpecHeads == InitHeads /\ [][NextHeads]_vars

----------------------------------------------------------------------------
(* AugmentedConv.forward, the attention path (lines 50-63), with elements.  *)
(* qkv_conv is a learned convolution, so its value part v is any tensor of  *)
(* shape (batch, dv, height, width); the weights of line 56 are the softmax *)
(* of logits computed from its query and key parts, here any tensor of      *)
(* shape (batch, Nh, height*width, height*width) over the integers.         *)

MaxAttnHeads == 2    \* largest Nh of the attention path
MaxValueDepth == 2   \* largest dv // Nh of the attention path

\* the 0-based index of the element at row-major offset off
RECURSIVE Index(_, _)
Index(shape, off) ==
    IF shape = <<>> THEN <<>>
    ELSE Append(Index(SubSeq(shape, 1, Len(shape) - 1), off \div shape[Len(shape)]),
                off % shape[Len(shape)])

\* t.transpose(2, 3) of a 4-dimensional tensor
Transpose23(t) ==
    LET sh == <<t.shape[1], t.shape[2], t.shape[4], t.shape[3]>> IN
    [shape |-> sh,
     data |-> [n \in 1..Prod(sh) |->
                 LET e == Index(sh, n - 1)
                 IN At(t, <<e[1], e[2], e[4], e[3]>>)]]

\* sum over k in 0..K-1 of a[b][h][m][k] * b2[b][h][k][n]
RECURSIVE Dot(_, _, _, _)
Dot(a, b2, e, K) ==
    IF K = 0 THEN 0
    ELSE Dot(a, b2, e, K - 1)
         + At(a, <<e[1], e[2], e[3], K - 1>>) * At(b2, <<e[1], e[2], K - 1, e[4]>>)

\* torch.matmul of two 4-dimensional tensors (batched over the first two)
MatMul(a, b2) ==
    LET sh == <<a.shape[1], a.shape[2], a.shape[3], b2.shape[4]>> IN
    [shape |-> sh,
     data |-> [n \in 1..Prod(sh) |-> Dot(a, b2, Index(sh, n - 1), a.shape[4])]]

NoTensor == [shape |-> <<>>, data |-> <<>>]

\* lines 71-83, the value part: v split into heads and flattened
ComputeFlatQKV ==
    /\ conv.phase = "forward"
    /\ LET sh == conv.vpart.shape
           v == Reshape(conv.vpart, SplitShape(sh, conv.Nh))
           flat == <<sh[1], conv.Nh, conv.dv \div conv.Nh, sh[3] * sh[4]>>
       IN  IF ReshapeOK(conv.vpart, SplitShape(sh, conv.Nh)) /\ ReshapeOK(v, flat)
           THEN conv' = [conv EXCEPT !.phase = "qkv", !.flat_v = Reshape(v, flat)]
           ELSE conv' = [conv EXCEPT !.phase = "failed"]
    /\ UNCHANGED <<pc, args, self, inputs, laterals, temps, l, i, outs, err,
                   calls, gates, refined, rel, heads>>

\* lines 51-56: the attention weights of every head, query and key position
AttentionWeights ==
    /\ conv.phase = "qkv"
    /\ \E base \in 0..MaxBase :
        LET HW == conv.flat_v.shape[4]
            sh == <<conv.flat_v.shape[1], conv.Nh, HW, HW>>
        IN conv' = [conv EXCEPT !.phase = "weights",
                                !.weights = Sentinel(sh, base, 1)]
    /\ UNCHANGED <<pc, args, self, inputs, laterals, temps, l, i, outs, err,
                   calls, gates, refined, rel, heads>>

\* line 60: attn_out = weights x flat_v^T, of shape (batch, Nh, HW, dvh)
WeightedSum ==
    /\ conv.phase = "weights"
    /\ conv' = [conv EXCEPT !.phase = "weighted",
                            !.attn_out = MatMul(conv.weights, Transpose23(conv.flat_v))]
    /\ UNCHANGED <<pc, args, self, inputs, laterals, temps, l, i, outs, err,
                   calls, gates, refined, rel, heads>>

\* line 61: the shape the weighted sum is reshaped into
AttnOutShape(batch, Nh, dv, height, width) ==
    <<batch, Nh, dv \div Nh, height, width>>

\* lines 61-63: reshape into heads and combine_heads_2d
ReshapeAttnOut ==
    /\ conv.phase = "weighted"
    /\ LET sh == AttnOutShape(conv.vpart.shape[1], conv.Nh, conv.dv,
                              conv.vpart.shape[3], conv.vpart.shape[4])
       IN  IF ReshapeOK(conv.attn_out, sh)
              /\ ReshapeOK(Reshape(conv.attn_out, sh), CombineShape(sh))
           THEN conv' = [conv EXCEPT
                           !.phase = "combined",
                           !.out = Reshape(Reshape(conv.attn_out, sh), CombineShape(sh))]
           ELSE conv' = [conv EXCEPT !.phase = "failed"]
    /\ UNCHANGED <<pc, args, self, inputs, laterals, temps, l, i, outs, err,
                   calls, gates, refined, rel, heads>>

InitAttn ==
    /\ IdleForward
    /\ \E B \in 1..MaxBatch, Nh \in 1..MaxAttnHeads, dvh \in 1..MaxValueDepth,
          H \in 1..MaxHW, W \in 1..MaxHW, base \in 0..MaxBase :
        conv = [phase |-> "forward", Nh |-> Nh, dv |-> Nh * dvh,
                vpart |-> Sentinel(<<B, Nh * dvh, H, W>>, base, 1),
                flat_v |-> NoTensor, weights |-> NoTensor,
                attn_out |-> NoTensor, out |-> NoTensor]
    /\ rel = IdleRel /\ heads = IdleHeads

NextAttn == ComputeFlatQKV \/ AttentionWeights \/ WeightedSum \/ ReshapeAttnOut

SpecAttn == InitAttn /\ [][NextAttn]_vars

----------------------------------------------------------------------------
(* Claims about the orchestrator *)

Window(obj) == Len(obj.lateral_convs)
Returned == pc = "done"
Constructed == pc \notin {"new", "ctor_failed"}
InForward == pc \notin {"new", "ctor_failed", "constructed"}

\* a window [start_level, num_ins) with 0 <= start_level < num_ins
ValidWindow(obj) ==
    /\ 0 <= obj.start_level
    /\ obj.start_level < obj.backbone_end_level
    /\ obj.backbone_end_level = obj.num_ins

\* an input pyramid in which every level has the size a stride-2 3x3
\* convolution (padding 1) makes of the level before it
HalvingPyramid(x) ==
    \A k \in 1..(Len(x) - 1) : x[k + 1].s = DownConvSize(x[k].s)

\* C1: for every accepted configuration and every input sequence of the
\* configured length, forward returns exactly num_outs feature maps, the
\* window levels first in level order, then the extra levels in the order
\* they were synthesized.  Stated for the windows [start_level, num_ins)
\* inside the input levels, upsample_cfg without scale_factor and halving
\* input pyramids.
C1_ForwardReturnsNumOuts ==
    (InForward /\ ValidWindow(self) /\ self.scale_factor = 0
     /\ HalvingPyramid(inputs)) =>
        /\ pc = "failed" => err = "AssertionError:len(inputs)"
        /\ Returned =>
            /\ Len(outs) = self.num_outs
            /\ \A k \in 1..Len(outs) :
                /\ outs[k].idx = k - 1
                /\ outs[k].kind = IF k <= Window(self) THEN "window" ELSE "extra"

\* C1 apart from output-conv sharing: the same, for out_sharing=False.
C1_ExceptOutSharing ==
    ~(InForward /\ self.out_sharing) => C1_ForwardReturnsNumOuts

Sizes(seq) == [k \in 1..Len(seq) |-> seq[k].s]

\* C2: for every input pyramid forward completes and output k of the window
\* has the spatial size of input level start_level + k; stated for the
\* documented instance: Attention([2, 3, 5, 7], 11, 4) on inputs of spatial
\* sizes [340, 170, 84, 43] returns four maps of sizes [340, 170, 84, 43].
C2_DocExampleSizes ==
    (args = DefaultArgs /\ Sizes(inputs) = DocScales) =>
        /\ pc # "failed"
        /\ Returned =>
            /\ Len(outs) = Len(DocScales)
            /\ \A k \in 1..Window(self) :
                  outs[k].s = inputs[self.start_level + k].s

\* the output an extra level k (1-based, k > window) is computed from
ExtraFrom(k) ==
    IF k = Window(self) + 1 /\ self.add_extra_convs = "on_input"
    THEN PyIndex(inputs, self.backbone_end_level - 1).s
    ELSE IF k = Window(self) + 1 /\ self.add_extra_convs = "on_lateral"
    THEN laterals[Len(laterals)].s
    ELSE outs[k - 1].s

\* C3 as stated: with no extra-convs policy every extra output, the max-pool
\* of the previous output, is strictly smaller than that output, for every
\* previous size s >= 1.
C3_ExtraStrictlySmaller ==
    (Returned /\ ~Truthy(self.add_extra_convs)) =>
        \A k \in (Window(self) + 1)..Len(outs) :
            outs[k - 1].s >= 1 => outs[k].s < outs[k - 1].s

\* C3 as amended: every extra output has size floor((s-1)/2)+1 for a source
\* of size s, which is strictly smaller than s exactly when s >= 2 and is 1
\* when s = 1; with no extra-convs policy the extra levels are pooled from
\* the previous output (43 -> 22 -> 11) and the constructor created no
\* convolution for them.
C3_ExtraHalved ==
    Returned => \A k \in (Window(self) + 1)..Len(outs) :
        /\ outs[k].s = ((ExtraFrom(k) - 1) \div 2) + 1
        /\ ExtraFrom(k) >= 2 => outs[k].s < ExtraFrom(k)
        /\ ExtraFrom(k) = 1 => outs[k].s = 1
        /\ outs[k].c = self.out_channels
        /\ ~Truthy(self.add_extra_convs) =>
              /\ ExtraFrom(k) = outs[k - 1].s
              /\ Len(self.fpn_convs) = Window(self)
              /\ (outs[k - 1].s = 43 => outs[k].s = 22)
              /\ (outs[k - 1].s = 22 => outs[k].s = 11)

\* C3 witness: a last window level of size 43 pooled to 22 and then 11.
C3_Witness ==
    /\ Returned /\ ~Truthy(self.add_extra_convs)
    /\ Len(outs) = Window(self) + 2
    /\ outs[Window(self)].s = 43
    /\ outs[Window(self) + 1].s = 22
    /\ outs[Window(self) + 2].s = 11

\* C4: construction fails whenever the level window is inconsistent, and
\* every configuration that passes has a window [start_level,
\* backbone_end_level) inside 0..num_ins that is not empty.
WindowInconsistent(a) ==
    IF a.end_level = -1
    THEN a.num_outs < Len(a.in_channels) - a.start_level
    ELSE a.end_level > Len(a.in_channels)
         \/ a.num_outs # a.end_level - a.start_level

C4_WindowValidated ==
    /\ (pc # "new" /\ WindowInconsistent(args)) => pc = "ctor_failed"
    /\ Constructed =>
        /\ 0 <= self.start_level
        /\ self.backbone_end_level <= self.num_ins
        /\ self.start_level < self.backbone_end_level

StoredPolicies == {"False", "on_input", "on_lateral", "on_output"}

\* C6: after a successful construction the stored extra-level source policy
\* is False or one of 'on_input', 'on_lateral', 'on_output' (True becomes
\* 'on_input' or 'on_output' by extra_convs_on_inputs); any other string
\* aborts construction; forward never raises NotImplementedError for an
\* unrecognized policy.
C6_PolicyRecognized ==
    /\ Constructed =>
        /\ self.add_extra_convs \in StoredPolicies
        /\ args.add_extra_convs = "True" =>
              self.add_extra_convs = IF args.extra_convs_on_inputs
                                     THEN "on_input" ELSE "on_output"
        /\ args.add_extra_convs # "True" =>
              self.add_extra_convs = args.add_extra_convs
    /\ (pc # "new" /\ IsStr(args.add_extra_convs)
        /\ args.add_extra_convs \notin {"on_input", "on_lateral", "on_output"})
          => pc = "ctor_failed"
    /\ err # "NotImplementedError"

\* C6 witness: add_extra_convs=True with extra_convs_on_inputs=False was
\* stored as 'on_output' and forward took the extra-convs branch with it.
C6_Witness ==
    /\ Returned
    /\ args.add_extra_convs = "True" /\ ~args.extra_convs_on_inputs
    /\ self.add_extra_convs = "on_output"
    /\ Len(outs) > Window(self)
    /\ outs[Len(outs)].kind = "extra"

\* C9: no F.interpolate call made during forward is given both an explicit
\* size and a scale factor; each gets exactly one of the two.
C9_SizeXorScale ==
    \A c \in calls : (c.size /\ ~c.scale_factor) \/ (~c.size /\ c.scale_factor)

\* C10: the candidate list handed to a level's attention gate has exactly
\* num_ins - start_level tensors, the number of levels the gate was built
\* for, and out_channels times that many channels once concatenated; also
\* with an explicit end_level smaller than num_ins.  Stated for
\* start_level >= 0.
C10_CandidatesMatchGate ==
    (Constructed /\ self.start_level >= 0) =>
        \A g \in gates :
            /\ g.n = self.num_ins - self.start_level
            /\ g.n = g.levels
            /\ g.c = g.in_channels

\* an input pyramid in which every level is half the level before it,
\* rounded down or up
HalvedPyramid(x) ==
    \A k \in 1..(Len(x) - 1) :
        x[k + 1].s \in {x[k].s \div 2, (x[k].s + 1) \div 2}

\* C11: all candidates built for a window level i have the spatial size of
\* laterals[i], for every input pyramid: a finer level j < i arrives at that
\* size through its chain of i - j stride-2 convolutions (each s ->
\* floor((s-1)/2)+1), laterals[i] is included unchanged, and every coarser
\* level j > i is interpolated to that size.  Stated for the windows
\* [start_level, num_ins) inside the input levels and the pyramids whose
\* levels are halved from one to the next.
C11_CandidatesAligned ==
    (InForward /\ ValidWindow(self) /\ HalvedPyramid(inputs)) =>
        \A g \in gates :
            /\ Len(g.samples) = Len(g.laterals)
            /\ \A j \in 1..Len(g.samples) :
                /\ g.samples[j] = g.shape
                /\ j <= g.i => g.samples[j] = Chain(g.laterals[j], g.i + 1 - j)
                /\ j = g.i + 1 => g.samples[j] = g.laterals[j]

\* C11 on the pyramids the chains are made for: when every level has the
\* size a stride-2 3x3 convolution makes of the level before it, all
\* candidates of every level have the size of laterals[i].
C11_AlignedOnConvPyramids ==
    (InForward /\ ValidWindow(self) /\ HalvingPyramid(inputs)) =>
        \A g \in gates : g.sizes = {g.shape}

\* the failures of forward on a parameter bank entry that was never created
MissingBankEntry ==
    {"IndexError:downsample_convs", "IndexError:fusion_attentions",
     "IndexError:repeated_convs", "IndexError:fpn_convs"}

\* C12: for every combination of the three sharing flags and every
\* repeated_layer >= 1, every bank entry forward indexes was created at
\* construction (downsample_convs[down_l][i][j], fusion_attentions
\* [attention_l][i], repeated_convs[out_l][i] between repetitions, and the
\* output projection of each window level, repeated_convs[0][i] under
\* output-conv sharing): no forward pass fails on a missing bank entry.
\* Stated for the windows [start_level, num_ins) inside the input levels.
C12_BankEntriesCreated ==
    (InForward /\ ValidWindow(self)) => err \notin MissingBankEntry

\* C12 apart from output-conv sharing with a single repetition: the same,
\* whenever out_sharing is off or repeated_layer >= 2.
C12_ExceptSharedSingleRepetition ==
    (InForward /\ ValidWindow(self)
     /\ ~(self.out_sharing /\ self.repeated_layer = 1)) =>
        err \notin MissingBankEntry

\* the repetitions after which the refinement convolutions have been applied
RefinedAfter == {e.after : e \in {e \in refined : e.role = "refinement"}}

\* C13: with repeated_layer = R the refinement convolutions are applied to
\* the fused tensors after each of the repetitions 0..R-2 (from the bank of
\* that repetition, or bank 0 under output-conv sharing) and not after
\* repetition R-1, whose fused tensors become the final laterals directly;
\* with repeated_layer = 1 no convolution of repeated_convs is ever invoked,
\* whatever the sharing flags are.
C13_RefinementBetweenRepetitions ==
    (InForward /\ Window(self) >= 1) =>
        LET R == self.repeated_layer IN
        /\ \A e \in refined :
            /\ e.role = "refinement" => e.after \in 0..(R - 2)
            /\ e.bank = IF self.out_sharing THEN 0 ELSE e.after
        /\ pc = "fuse" => RefinedAfter = {k \in 0..(l - 1) : k <= R - 2}
        /\ (pc = "fuse" /\ l = R) => laterals = temps
        /\ pc \in {"outs", "extra", "done"} => RefinedAfter = 0..(R - 2)
        /\ R = 1 => refined = {}

\* C13 witness: a forward pass with repeated_layer = 2 over two or more
\* levels has returned, refined after repetition 0 and not after 1.
C13_Witness ==
    /\ Returned
    /\ self.repeated_layer = 2 /\ Window(self) >= 2
    /\ RefinedAfter = {0}
    /\ l = 2

----------------------------------------------------------------------------
(* Claims about AugmentedConv *)

\* C5: constructing AugmentedConv raises a configuration error for every
\* parameter set that violates Nh >= 1, dk % Nh == 0, dv % Nh == 0 or
\* stride in {1,2,3,4}, and succeeds only when all four hold (a negative Nh
\* is rejected).
C5_ConfigValidated ==
    conv.phase \in {"constructed", "failed"} =>
        (conv.phase = "constructed" <=>
            /\ conv.a.Nh >= 1
            /\ conv.a.dk % conv.a.Nh = 0
            /\ conv.a.dv % conv.a.Nh = 0
            /\ conv.a.stride \in {1, 2, 3, 4})

\* C7: for x of shape (B, Nh, L, 2L-1), rel_to_abs returns a tensor of shape
\* (B, Nh, L, L) with out[b][h][p][k] = x[b][h][p][k - p + L - 1]; no zero of
\* the two pads appears in it.
C7_RelToAbsIndexLaw ==
    rel.phase \in {"returned", "failed"} =>
        LET B == rel.x.shape[1]
            Nh == rel.x.shape[2]
            L == rel.x.shape[3]
        IN  /\ rel.phase = "returned"
            /\ rel.out.shape = <<B, Nh, L, L>>
            /\ Len(rel.out.data) = B * Nh * L * L
            /\ \A b \in 0..(B - 1), h \in 0..(Nh - 1), p \in 0..(L - 1),
                  k \in 0..(L - 1) :
                    At(rel.out, <<b, h, p, k>>) = At(rel.x, <<b, h, p, k - p + L - 1>>)
            /\ \A n \in 1..Len(rel.out.data) : rel.out.data[n] # 0

\* C7 witness: a call with L = 3 and more than one batch element and head
\* has returned.
C7_Witness ==
    /\ rel.phase = "returned"
    /\ rel.x.shape[3] = 3 /\ rel.x.shape[1] >= 2 /\ rel.x.shape[2] >= 2
    /\ At(rel.out, <<1, 1, 2, 0>>) = At(rel.x, <<1, 1, 2, 0>>)
    /\ At(rel.out, <<1, 1, 0, 2>>) = At(rel.x, <<1, 1, 0, 4>>)

\* C8: for x of shape (batch, C, H, W) and Nh >= 1 dividing C,
\* combine_heads_2d(split_heads_2d(x, Nh)) equals x element for element:
\* channel c of x is channel c mod (C/Nh) of head c div (C/Nh) and is mapped
\* back to channel c.
C8_SplitCombineRoundTrip ==
    LET sh == heads.x.shape
        Nh == heads.Nh
        d == sh[2] \div Nh
        idx == {<<b, c, y, x>> : b \in 0..(sh[1] - 1), c \in 0..(sh[2] - 1),
                                 y \in 0..(sh[3] - 1), x \in 0..(sh[4] - 1)}
    IN  /\ (heads.phase # "call" /\ sh[2] % Nh = 0) => heads.phase # "failed"
        /\ heads.phase \in {"split", "combined"} =>
            /\ heads.split.shape = <<sh[1], Nh, d, sh[3], sh[4]>>
            /\ \A e \in idx :
                At(heads.split, <<e[1], e[2] \div d, e[2] % d, e[3], e[4]>>)
                    = At(heads.x, e)
        /\ heads.phase = "combined" =>
            /\ heads.back.shape = sh
            /\ \A e \in idx : At(heads.back, e) = At(heads.x, e)

\* C8 witness: a tensor with 4 channels split into 2 heads of 2 channels
\* and combined again.
C8_Witness ==
    /\ heads.phase = "combined"
    /\ heads.x.shape[2] = 4 /\ heads.Nh = 2
    /\ heads.x.shape[3] = 2 /\ heads.x.shape[4] = 2
    /\ heads.split.shape[3] = 2

\* sum over the key positions n in 0..N-1 of weights[b][h][q][n] times the
\* value channel ch of the value part at position n
RECURSIVE Attended(_, _, _, _, _)
Attended(b, h, q, ch, N) ==
    IF N = 0 THEN 0
    ELSE LET W == conv.vpart.shape[4] IN
         Attended(b, h, q, ch, N - 1)
         + At(conv.weights, <<b, h, q, N - 1>>)
           * At(conv.vpart, <<b, ch, (N - 1) \div W, (N - 1) % W>>)

\* the elements of the attention path's output that are the weighted sum of
\* their own head, value channel and query position
AttnInPlace ==
    LET sh == conv.vpart.shape
        dvh == conv.dv \div conv.Nh
    IN  /\ conv.out.shape = <<sh[1], conv.dv, sh[3], sh[4]>>
        /\ \A b \in 0..(sh[1] - 1), h \in 0..(conv.Nh - 1), c \in 0..(dvh - 1),
              y \in 0..(sh[3] - 1), x \in 0..(sh[4] - 1) :
                At(conv.out, <<b, h * dvh + c, y, x>>)
                    = Attended(b, h, y * sh[4] + x, h * dvh + c, sh[3] * sh[4])

\* C14: for every Nh and dv with dv % Nh == 0, dv/Nh > 1 included, the
\* attention path's tensor before the 1x1 mixing has at channel h*(dv/Nh)+c
\* and position (y, x) the sum over the key positions n of
\* weights[h][y*W+x][n] * v[h][c][n]: the reshape of line 61 keeps every
\* element at its own head, value channel and query position.
C14_WeightedSumInPlace ==
    conv.phase \in {"combined", "failed"} =>
        /\ conv.phase = "combined"
        /\ AttnInPlace

\* C14 for one value channel per head (dv = Nh, as the defaults dv=4, Nh=4):
\* the same law.
C14_InPlaceForSingleValueChannel ==
    (conv.phase \in {"combined", "failed"} /\ conv.dv = conv.Nh) =>
        /\ conv.phase = "combined"
        /\ AttnInPlace

=============================================================================
